---------------------------- MODULE Spec2Model ----------------------------
(***************************************************************************)
(* A model of DiceOdds (src/DiceOddsLib/DiceOdds.py): the command line     *)
(* program DiceOdds(args) as a state machine, one action per step of its   *)
(* body, and its functions parse_die, parse_args, process_flags,           *)
(* generate_all_rolls, process_dice, get_graph_line and print_graph as     *)
(* operators.  A string is a sequence of one-character strings, so that    *)
(* startswith, lower, the regular expression and int() are computed.       *)
(***************************************************************************)
EXTENDS Integers, Sequences, FiniteSets, TLC

VARIABLES
    args,               \* the argument list given to DiceOdds
    pc,                 \* position in DiceOdds' body
    dice, flags,        \* parse_args' two lists
    show_prob, show_occurrences, show_graph, do_roll, show_help,
    dice_faces,         \* the parsed face counts
    parse_calls,        \* how many tokens parse_die has been called on
    results,            \* process_dice's table
    total_combinations, \* process_dice's second result
    out,                \* what has been printed, one entry per print
    exit_status,        \* the process' exit status once pc = "exited"
    call,               \* a function called on its own: [fn, arg]
    ret                 \* and what it returned

vars == <<args, pc, dice, flags, show_prob, show_occurrences, show_graph,
          do_roll, show_help, dice_faces, parse_calls, results,
          total_combinations, out, exit_status, call, ret>>

mainvars == <<args, pc, dice, flags, show_prob, show_occurrences, show_graph,
              do_roll, show_help, dice_faces, parse_calls, results,
              total_combinations, out, exit_status>>

-----------------------------------------------------------------------------
(* Bounds of the model. *)

\* the longest token parse_die is called on, on its own
MaxTokLen == 3
\* the most die tokens in an argument list
MaxDice == 2
\* the most flag tokens in an argument list
MaxFlags == 4
\* the most flags in a list process_flags is called on, on its own
MaxFlagList == 5
\* the most dice, and the most faces, process_dice is called on, on its own
MaxEngineDice == 3
MaxFaces == 6
\* the largest maximum count get_graph_line is called on, on its own
MaxCount == 110
\* the most digits of a sum print_graph's row is formatted for, on its own
MaxDigits == 6

-----------------------------------------------------------------------------
(* Helpers. *)

Range(s) == {s[i] : i \in 1..Len(s)}

Max(a, b) == IF a >= b THEN a ELSE b

\* the sequences over S of length 0..n
RECURSIVE SeqsUpTo(_, _)
SeqsUpTo(S, n) ==
    IF n = 0 THEN {<<>>}
    ELSE LET shorter == SeqsUpTo(S, n - 1)
         IN  shorter \cup {Append(s, x) : s \in {t \in shorter : Len(t) = n - 1}, x \in S}

\* the subsequences of the list L with at most n elements
RECURSIVE SubLists(_, _)
SubLists(L, n) ==
    IF L = <<>> THEN {<<>>}
    ELSE LET rest == SubLists(Tail(L), n)
         IN  rest \cup {<<Head(L)>> \o s : s \in {t \in rest : Len(t) < n}}

\* Python's ' ' * k and '=' * k: empty when k <= 0
Repeat(ch, k) == [i \in 1..k |-> ch]

\* len(str(n)) of a non-negative int
RECURSIVE DigitLen(_)
DigitLen(n) == IF n < 10 THEN 1 ELSE 1 + DigitLen(n \div 10)

-----------------------------------------------------------------------------
(* parse_die *)

\* str.lower() of one character
LowerChar(ch) ==
    CASE ch = "D" -> "d"
      [] ch = "A" -> "a"
      [] OTHER    -> ch

lower(s) == [i \in 1..Len(s) |-> LowerChar(s[i])]

\* the characters \d matches (a str pattern: any Unicode decimal digit, here the
\* ASCII ones and ARABIC-INDIC DIGIT THREE, "u0663") with the value int() gives
DigitValue ==
    [ch \in {"0", "1", "2", "3", "4", "5", "6", "7", "8", "9", "u0663"} |->
        CASE ch = "0" -> 0 [] ch = "1" -> 1 [] ch = "2" -> 2 [] ch = "3" -> 3
          [] ch = "4" -> 4 [] ch = "5" -> 5 [] ch = "6" -> 6 [] ch = "7" -> 7
          [] ch = "8" -> 8 [] ch = "9" -> 9 [] ch = "u0663" -> 3]

IsDigit(ch) == ch \in DOMAIN DigitValue

\* re.fullmatch(r'd(\d+)', s): the group, or <<>> for no match (a match's group
\* has at least one digit)
fullmatch_die(s) ==
    IF /\ Len(s) >= 2
       /\ s[1] = "d"
       /\ \A i \in 2..Len(s) : IsDigit(s[i])
    THEN SubSeq(s, 2, Len(s))
    ELSE <<>>

\* int() of a string of decimal digits
RECURSIVE int(_)
int(ds) ==
    IF ds = <<>> THEN 0
    ELSE 10 * int(SubSeq(ds, 1, Len(ds) - 1)) + DigitValue[ds[Len(ds)]]

ValueError(arg) == [ok |-> FALSE, message |-> <<"Invalid die format: ">> \o arg]

parse_die_nocheck(arg) ==
    LET group == fullmatch_die(lower(arg))
    IN  IF group = <<>>
        THEN ValueError(arg)
        ELSE [ok |-> TRUE, value |-> int(group)]

parse_die(arg) ==
    LET group == fullmatch_die(lower(arg))
    IN  IF group = <<>> \/ int(group) < 1
        THEN ValueError(arg)
        ELSE [ok |-> TRUE, value |-> int(group)]

-----------------------------------------------------------------------------
(* parse_args *)

startswith_dash(arg) == Len(arg) >= 1 /\ arg[1] = "-"

\* the tokens of l that satisfy (keep = TRUE) or do not satisfy startswith('-'),
\* in order
RECURSIVE FilterArgs(_, _)
FilterArgs(l, keep) ==
    IF l = <<>> THEN <<>>
    ELSE IF startswith_dash(Head(l)) = keep
         THEN <<Head(l)>> \o FilterArgs(Tail(l), keep)
         ELSE FilterArgs(Tail(l), keep)

parse_args(l) == [dice |-> FilterArgs(l, FALSE), flags |-> FilterArgs(l, TRUE)]

-----------------------------------------------------------------------------
(* process_flags *)

F_p == <<"-", "p">>
F_prob == <<"-", "-", "p", "r", "o", "b">>
F_o == <<"-", "o">>
F_occ == <<"-", "-", "o", "c", "c">>
F_g == <<"-", "g">>
F_graph == <<"-", "-", "g", "r", "a", "p", "h">>
F_r == <<"-", "r">>
F_roll == <<"-", "-", "r", "o", "l", "l">>
F_h == <<"-", "h">>
F_help == <<"-", "-", "h", "e", "l", "p">>
\* the literal 'help' of line 78, and a flag that is not recognised
W_help == <<"h", "e", "l", "p">>
F_x == <<"-", "x">>

flag_args == {F_p, F_prob, F_o, F_occ, F_g, F_graph, F_r, F_roll, F_h, F_help}

Line(kind, data) == [kind |-> kind, data |-> data]

\* the ten lines of the help text (lines 80 to 89)
HelpText ==
    <<Line("usage", <<>>), Line("blank", <<>>), Line("example", <<>>),
      Line("blank", <<>>), Line("flags_header", <<>>),
      Line("flag_help", F_p), Line("flag_help", F_o), Line("flag_help", F_g),
      Line("flag_help", F_r), Line("flag_help", F_h)>>

\* the first flag of fl that is not in flag_args, as <<flag>>, or <<>>
RECURSIVE FirstInvalid(_)
FirstInvalid(fl) ==
    IF fl = <<>> THEN <<>>
    ELSE IF Head(fl) \notin flag_args THEN <<Head(fl)>>
    ELSE FirstInvalid(Tail(fl))

\* mutant: the four flags are not reset on the help path
process_flags_noreset(fl) ==
    LET bad == FirstInvalid(fl)
        p == F_p \in Range(fl) \/ F_prob \in Range(fl)
        o == F_o \in Range(fl) \/ F_occ \in Range(fl)
        g == F_g \in Range(fl) \/ F_graph \in Range(fl)
        r == F_r \in Range(fl) \/ F_roll \in Range(fl)
        h == \/ F_h \in Range(fl) \/ F_help \in Range(fl) \/ W_help \in Range(fl)
             \/ (~p /\ ~o /\ ~g /\ ~r)
    IN  IF bad # <<>>
        THEN [exit |-> TRUE, printed |-> <<Line("invalid_flag", bad[1])>>,
              show_prob |-> FALSE, show_occurrences |-> FALSE,
              show_graph |-> FALSE, do_roll |-> FALSE, show_help |-> FALSE]
        ELSE [exit |-> FALSE, printed |-> IF h THEN HelpText ELSE <<>>,
              show_prob |-> p, show_occurrences |-> o,
              show_graph |-> g, do_roll |-> r, show_help |-> h]

\* mutant: an unrecognised flag is not rejected
process_flags_nocheck(fl) ==
    LET p == F_p \in Range(fl) \/ F_prob \in Range(fl)
        o == F_o \in Range(fl) \/ F_occ \in Range(fl)
        g == F_g \in Range(fl) \/ F_graph \in Range(fl)
        r == F_r \in Range(fl) \/ F_roll \in Range(fl)
        h == \/ F_h \in Range(fl) \/ F_help \in Range(fl) \/ W_help \in Range(fl)
             \/ (~p /\ ~o /\ ~g /\ ~r)
    IN  [exit |-> FALSE, printed |-> IF h THEN HelpText ELSE <<>>,
         show_prob |-> p /\ ~h, show_occurrences |-> o /\ ~h,
         show_graph |-> g /\ ~h, do_roll |-> r /\ ~h, show_help |-> h]

\* exit: sys.exit(1) was called (after printing the invalid flag); otherwise the
\* five booleans returned, and what was printed on the way
process_flags(fl) ==
    LET bad == FirstInvalid(fl)
        p == F_p \in Range(fl) \/ F_prob \in Range(fl)
        o == F_o \in Range(fl) \/ F_occ \in Range(fl)
        g == F_g \in Range(fl) \/ F_graph \in Range(fl)
        r == F_r \in Range(fl) \/ F_roll \in Range(fl)
        h == \/ F_h \in Range(fl) \/ F_help \in Range(fl) \/ W_help \in Range(fl)
             \/ (~p /\ ~o /\ ~g /\ ~r)
    IN  IF bad # <<>>
        THEN [exit |-> TRUE, printed |-> <<Line("invalid_flag", bad[1])>>,
              show_prob |-> FALSE, show_occurrences |-> FALSE,
              show_graph |-> FALSE, do_roll |-> FALSE, show_help |-> FALSE]
        ELSE [exit |-> FALSE, printed |-> IF h THEN HelpText ELSE <<>>,
              show_prob |-> p /\ ~h, show_occurrences |-> o /\ ~h,
              show_graph |-> g /\ ~h, do_roll |-> r /\ ~h, show_help |-> h]

-----------------------------------------------------------------------------
(* Binary64 arithmetic, for get_graph_line's (n / max) * 50 + 1.  A natural   *)
(* number is a sequence of limbs, least significant first, in base 2^15; a    *)
(* float is [n, e]: a natural number below 2^53 (or 2^53 itself) and an       *)
(* exponent, of value n * 2^e.                                                *)

\* the significand's width (IEEE 754 binary64), and the limbs' width
Precision == 53
LimbBits == 15

RECURSIVE Pow2(_)
Pow2(s) == IF s = 0 THEN 1 ELSE 2 * Pow2(s - 1)

LimbBase == Pow2(LimbBits)

Limb(n, i) == IF i <= Len(n) THEN n[i] ELSE 0

\* bit j (from 0) of n
Bit(n, j) == (Limb(n, (j \div LimbBits) + 1) \div Pow2(j % LimbBits)) % 2

\* n mod 2^j is not 0
LowNonZero(n, j) ==
    \E i \in 1..Len(n) :
        \/ i - 1 < j \div LimbBits /\ n[i] # 0
        \/ i - 1 = j \div LimbBits /\ n[i] % Pow2(j % LimbBits) # 0

RECURSIVE IntBitLen(_)
IntBitLen(v) == IF v = 0 THEN 0 ELSE 1 + IntBitLen(v \div 2)

\* the number of bits of n
BitLen(n) ==
    LET used == {i \in 1..Len(n) : n[i] # 0}
    IN  IF used = {} THEN 0
        ELSE LET h == CHOOSE i \in used : \A j \in used : j <= i
             IN  (h - 1) * LimbBits + IntBitLen(n[h])

\* floor(n / 2^k)
ShiftRight(n, k) ==
    LET ls == k \div LimbBits
        bs == k % LimbBits
    IN  [i \in 1..(Len(n) - ls) |->
            (Limb(n, i + ls) \div Pow2(bs))
            + (Limb(n, i + ls + 1) % Pow2(bs)) * Pow2(LimbBits - bs)]

\* n + carry * base^(i-1), for i <= Len(n) + 1
RECURSIVE AddCarry(_, _, _)
AddCarry(n, i, carry) ==
    IF carry = 0 THEN n
    ELSE IF i > Len(n) THEN n \o <<carry>>
    ELSE AddCarry([n EXCEPT ![i] = (n[i] + carry) % LimbBase], i + 1,
                  (n[i] + carry) \div LimbBase)

\* n + 2^p
AddPow2(n, p) ==
    LET i == (p \div LimbBits) + 1
        padded == n \o [j \in 1..(i - Len(n)) |-> 0]
    IN  AddCarry(padded, i, Pow2(p % LimbBits))

\* the limbs of n * k from limb i on, for a small int k
RECURSIVE MulLimbs(_, _, _, _)
MulLimbs(n, k, i, carry) ==
    IF i > Len(n) THEN (IF carry = 0 THEN <<>> ELSE <<carry>>)
    ELSE <<(n[i] * k + carry) % LimbBase>>
         \o MulLimbs(n, k, i + 1, (n[i] * k + carry) \div LimbBase)

\* n (a small one) as an int
ToInt(n) == Limb(n, 1) + LimbBase * Limb(n, 2)

\* n * 2^e rounded to nearest, ties to even; sticky: the exact value has
\* further non-zero bits below n
RoundFloat(n, e, sticky) ==
    LET k == BitLen(n) - Precision
    IN  IF k <= 0 THEN [n |-> n, e |-> e]
        ELSE LET q == ShiftRight(n, k)
                 up == /\ Bit(n, k - 1) = 1
                       /\ (sticky \/ LowNonZero(n, k - 1) \/ Bit(q, 0) = 1)
             IN  [n |-> IF up THEN AddPow2(q, 0) ELSE q, e |-> e + k]

\* the least s >= 0 with c * 2^s >= m
RECURSIVE ShiftUp(_, _)
ShiftUp(c, m) == IF c >= m THEN 0 ELSE 1 + ShiftUp(2 * c, m)

\* long division: k more limbs of r / m (r < m < 2^16), and the remainder left
RECURSIVE DivLimbs(_, _, _)
DivLimbs(r, m, k) ==
    IF k = 0 THEN [limbs |-> <<>>, rem |-> r]
    ELSE LET next == DivLimbs((r * LimbBase) % m, m, k - 1)
         IN  [limbs |-> next.limbs \o <<(r * LimbBase) \div m>>, rem |-> next.rem]

\* the limbs after the leading 1 that fdiv divides to: 60 bits, more than Precision
DivDigits == 4

\* c / m for ints 1 <= c <= m: the correctly rounded quotient
fdiv(c, m) ==
    LET s == ShiftUp(c, m)
        d == DivLimbs(c * Pow2(s) - m, m, DivDigits)
    IN  RoundFloat(d.limbs \o <<1>>, 0 - s - DivDigits * LimbBits, d.rem # 0)

\* x * k for a small int k >= 1
fmul(x, k) == RoundFloat(MulLimbs(x.n, k, 1, 0), x.e, FALSE)

\* x + 1, for x.e <= 0
fadd1(x) == RoundFloat(AddPow2(x.n, 0 - x.e), x.e, FALSE)

\* int(x) for x.e <= 0: the integer part
ftrunc(x) == ToInt(ShiftRight(x.n, 0 - x.e))

-----------------------------------------------------------------------------
(* get_graph_line *)

\* line 159's threshold and line 161's factor
GraphThreshold == 50
GraphScale == 50

\* mutant: the scaled length rounded to nearest instead of truncated
get_graph_line_round(n_occurrences, max_occurrences) ==
    IF max_occurrences > GraphThreshold
    THEN Repeat("=", ((2 * GraphScale * n_occurrences + max_occurrences)
                        \div (2 * max_occurrences)) + 1)
    ELSE Repeat("=", n_occurrences)

get_graph_line(n_occurrences, max_occurrences) ==
    IF max_occurrences > GraphThreshold
    THEN Repeat("=", ftrunc(fadd1(fmul(fdiv(n_occurrences, max_occurrences), GraphScale))))
    ELSE Repeat("=", n_occurrences)

-----------------------------------------------------------------------------
(* generate_all_rolls and process_dice *)

\* list(range(a, b))
range(a, b) == [i \in 1..(b - a) |-> a + i - 1]

\* len(rs[i]) * ... * len(rs[n]): how many tuples the ranges from i on give
RECURSIVE CountFrom(_, _)
CountFrom(rs, i) == IF i > Len(rs) THEN 1 ELSE Len(rs[i]) * CountFrom(rs, i + 1)

\* list(itertools.product(*rs)): the tuples in order, the last range varying
\* fastest; the k-th tuple's element i advances every CountFrom(rs, i + 1) tuples
product(rs) ==
    [k \in 1..CountFrom(rs, 1) |->
        [i \in 1..Len(rs) |->
            rs[i][(((k - 1) \div CountFrom(rs, i + 1)) % Len(rs[i])) + 1]]]

\* mutant: range(0, faces + 1), a face 0
generate_all_rolls_from0(faces) ==
    product([i \in 1..Len(faces) |-> range(0, faces[i] + 1)])

generate_all_rolls(faces) ==
    product([i \in 1..Len(faces) |-> range(1, faces[i] + 1)])

\* Python's sum() of a tuple of ints
RECURSIVE sum(_)
sum(t) == IF t = <<>> THEN 0 ELSE Head(t) + sum(Tail(t))

\* collections.Counter of a sequence: each distinct element with the number of
\* its occurrences
Counter(l) == [x \in Range(l) |-> Cardinality({k \in 1..Len(l) : l[k] = x})]

\* dict.values(), as a set
values(d) == {d[x] : x \in DOMAIN d}

\* max() of a non-empty set of ints
max(S) == CHOOSE x \in S : \A y \in S : y <= x

\* mutant: the sums in descending order
sorted_desc(S) ==
    [i \in 1..Cardinality(S) |-> CHOOSE x \in S : Cardinality({y \in S : y > x}) = i - 1]

\* sorted() of a set of ints: ascending
sorted(S) ==
    [i \in 1..Cardinality(S) |-> CHOOSE x \in S : Cardinality({y \in S : y < x}) = i - 1]

\* mutant: the table leaves out the largest sum
process_dice_droplast(faces) ==
    LET rolls == generate_all_rolls(faces)
        sums == [k \in 1..Len(rolls) |-> sum(rolls[k])]
        sum_counts == Counter(sums)
        max_occurrences == max(values(sum_counts))
        keys == sorted(DOMAIN sum_counts \ {max(DOMAIN sum_counts)})
    IN  [results |->
            [i \in 1..Len(keys) |->
                <<keys[i],
                  [num |-> sum_counts[keys[i]], den |-> Len(rolls)],
                  sum_counts[keys[i]],
                  get_graph_line(sum_counts[keys[i]], max_occurrences)>>],
         total_combinations |-> Len(rolls)]

\* the table, one (total, probability, count, graph) per sum, and the number of
\* rolls; a probability is count / total_combinations, kept as the two ints
process_dice(faces) ==
    LET rolls == generate_all_rolls(faces)
        sums == [k \in 1..Len(rolls) |-> sum(rolls[k])]
        sum_counts == Counter(sums)
        max_occurrences == max(values(sum_counts))
        keys == sorted(DOMAIN sum_counts)
    IN  [results |->
            [i \in 1..Len(keys) |->
                <<keys[i],
                  [num |-> sum_counts[keys[i]], den |-> Len(rolls)],
                  sum_counts[keys[i]],
                  get_graph_line(sum_counts[keys[i]], max_occurrences)>>],
         total_combinations |-> Len(rolls)]

\* DataFrame(results, columns=['Sum', 'Probability', 'Occurrences', 'Graph'])
DataFrame(res) ==
    [i \in 1..Len(res) |->
        [Sum |-> res[i][1], Probability |-> res[i][2],
         Occurrences |-> res[i][3], Graph |-> res[i][4]]]

-----------------------------------------------------------------------------
(* Printing the table *)

\* df.to_string(index=False, columns=cols): the columns' names, and each row's
\* values in these columns
to_string(df, cols) ==
    Line("table", [columns |-> cols,
                   rows |-> [i \in 1..Len(df) |-> [j \in 1..Len(cols) |-> df[i][cols[j]]]]])

\* the widths in print_graph: the header's 5 ("Sums ") and the rows' 4
HeaderWidth == 5
MinSumWidth == 4

\* one row of print_graph (lines 145 to 151): the spaces, the sum, the bar and
\* the count after it
graph_row(row_sum, row_occurrences, max_sum_len, max_occurrences) ==
    [spaces |-> Repeat(" ", Max(max_sum_len - DigitLen(row_sum),
                                MinSumWidth - DigitLen(row_sum))),
     Sum |-> row_sum,
     bar |-> get_graph_line(row_occurrences, max_occurrences),
     Occurrences |-> row_occurrences]

\* what print_graph prints: the header "Sums <spaces>| Graph" and the rows
print_graph(df) ==
    LET max_sum == max({df[i].Sum : i \in 1..Len(df)})
        max_sum_len == DigitLen(max_sum)
        max_occurrences == max({df[i].Occurrences : i \in 1..Len(df)})
    IN  Line("graph",
             [columns |-> <<"Sum", "Graph">>,
              spaces |-> Repeat(" ", max_sum_len - HeaderWidth),
              rows |-> [i \in 1..Len(df) |->
                          graph_row(df[i].Sum, df[i].Occurrences,
                                    max_sum_len, max_occurrences)]])

\* mutant: show_prob alone is tested before show_prob and show_graph
print_table_order(df, p, o, g) ==
    IF p /\ o /\ g
    THEN <<to_string(df, <<"Sum", "Occurrences", "Probability", "Graph">>), Line("blank", <<>>)>>
    ELSE IF p /\ o
    THEN <<to_string(df, <<"Sum", "Occurrences", "Probability">>), Line("blank", <<>>)>>
    ELSE IF p
    THEN <<to_string(df, <<"Sum", "Probability">>), Line("blank", <<>>)>>
    ELSE IF o /\ g
    THEN <<to_string(df, <<"Sum", "Occurrences", "Graph">>), Line("blank", <<>>)>>
    ELSE IF o
    THEN <<to_string(df, <<"Sum", "Occurrences">>), Line("blank", <<>>)>>
    ELSE IF g
    THEN <<print_graph(df), Line("blank", <<>>)>>
    ELSE <<>>

\* lines 202 to 228: what is printed for the three flags
print_table(df, p, o, g) ==
    IF p /\ o /\ g
    THEN <<to_string(df, <<"Sum", "Occurrences", "Probability", "Graph">>), Line("blank", <<>>)>>
    ELSE IF p /\ o
    THEN <<to_string(df, <<"Sum", "Occurrences", "Probability">>), Line("blank", <<>>)>>
    ELSE IF p /\ g
    THEN <<to_string(df, <<"Sum", "Probability", "Graph">>), Line("blank", <<>>)>>
    ELSE IF o /\ g
    THEN <<to_string(df, <<"Sum", "Occurrences", "Graph">>), Line("blank", <<>>)>>
    ELSE IF p
    THEN <<to_string(df, <<"Sum", "Probability">>), Line("blank", <<>>)>>
    ELSE IF o
    THEN <<to_string(df, <<"Sum", "Occurrences">>), Line("blank", <<>>)>>
    ELSE IF g
    THEN <<print_graph(df), Line("blank", <<>>)>>
    ELSE <<>>

-----------------------------------------------------------------------------
(* The inputs. *)

\* the die tokens of an argument list: three well formed, one malformed
ArgDice == {<<"d", "2">>, <<"d", "3">>, <<"D", "1">>, <<"d", "0">>}

\* the flag tokens of an argument list, in the order they are given in
ArgFlags == <<F_p, F_o, F_g, F_x, F_r, F_h, F_occ>>

\* the argument lists: at most MaxDice die tokens and MaxFlags flag tokens, the
\* dice before the flags or after them
ArgLists ==
    LET ds == SeqsUpTo(ArgDice, MaxDice)
        fs == SubLists(ArgFlags, MaxFlags)
    IN  {d \o f : d \in ds, f \in fs} \cup {f \o d : d \in ds, f \in fs}

\* the characters of the tokens parse_die is called on, on its own
Chars == {"d", "D", "0", "1", "3", "-", "a", "u0663"}

Tokens == SeqsUpTo(Chars, MaxTokLen)

\* the flag lists process_flags is called on, on its own
FlagLists ==
    SubLists(<<F_p, F_prob, F_o, F_occ, F_x, F_g, F_graph, F_r, F_roll, F_h,
               F_help, W_help>>, MaxFlagList)

\* the face counts process_dice is called on, on its own
FaceLists == SeqsUpTo(1..MaxFaces, MaxEngineDice) \ {<<>>}

\* the counts get_graph_line is called on, on its own
CountPairs == {<<c, m>> \in (1..MaxCount) \X (1..MaxCount) : c <= m}

RECURSIVE Pow10(_)
Pow10(k) == IF k = 0 THEN 1 ELSE 10 * Pow10(k - 1)

\* the sums a row of print_graph is formatted for, on its own: the table of one
\* die of max_sum faces has the sums 1..max_sum, each with one occurrence
GraphSums == {Pow10(k) : k \in 0..(MaxDigits - 1)} \cup {Pow10(k) - 1 : k \in 1..MaxDigits}

SumPairs == {<<row_sum, max_sum>> \in GraphSums \X GraphSums : row_sum <= max_sum}

-----------------------------------------------------------------------------
(* DiceOdds(args), step by step. *)

NoCall == [fn |-> "none", arg |-> <<>>]
NotReturned == [done |-> FALSE, value |-> <<>>]
Returned(v) == [done |-> TRUE, value |-> v]

Fresh(l, at) ==
    /\ args = l
    /\ pc = at
    /\ dice = <<>>
    /\ flags = <<>>
    /\ show_prob = FALSE
    /\ show_occurrences = FALSE
    /\ show_graph = FALSE
    /\ do_roll = FALSE
    /\ show_help = FALSE
    /\ dice_faces = <<>>
    /\ parse_calls = 0
    /\ results = <<>>
    /\ total_combinations = 0
    /\ out = <<>>
    /\ exit_status = 0

Init ==
    /\ \E l \in ArgLists : Fresh(l, "start")
    /\ call = NoCall
    /\ ret = NotReturned

\* sys.exit(status), or with status 0 the return from DiceOdds
Exit(status) ==
    /\ pc' = "exited"
    /\ exit_status' = status

\* lines 171 to 176
ParseArgs ==
    /\ pc = "start"
    /\ IF args = <<>>
       THEN /\ out' = Append(out, Line("usage_short", <<>>))
            /\ Exit(1)
            /\ UNCHANGED <<dice, flags>>
       ELSE /\ dice' = parse_args(args).dice
            /\ flags' = parse_args(args).flags
            /\ pc' = "process_flags"
            /\ UNCHANGED <<out, exit_status>>
    /\ UNCHANGED <<args, show_prob, show_occurrences, show_graph, do_roll, show_help,
                   dice_faces, parse_calls, results, total_combinations, call, ret>>

\* line 178
ProcessFlags ==
    /\ pc = "process_flags"
    /\ LET f == process_flags(flags)
       IN  /\ out' = out \o f.printed
           /\ IF f.exit
              THEN /\ Exit(1)
                   /\ UNCHANGED <<show_prob, show_occurrences, show_graph, do_roll, show_help>>
              ELSE /\ show_prob' = f.show_prob
                   /\ show_occurrences' = f.show_occurrences
                   /\ show_graph' = f.show_graph
                   /\ do_roll' = f.do_roll
                   /\ show_help' = f.show_help
                   /\ pc' = "check_help"
                   /\ UNCHANGED exit_status
    /\ UNCHANGED <<args, dice, flags, dice_faces, parse_calls, results,
                   total_combinations, call, ret>>

\* mutant: the dice are looked at before show_help
CheckHelp_dicefirst ==
    /\ pc = "check_help"
    /\ IF dice = <<>>
       THEN /\ out' = Append(out, Line("no_dice", <<>>))
            /\ Exit(1)
       ELSE IF show_help
       THEN /\ Exit(0)
            /\ UNCHANGED out
       ELSE /\ pc' = "parse_dice"
            /\ UNCHANGED <<out, exit_status>>
    /\ UNCHANGED <<args, dice, flags, show_prob, show_occurrences, show_graph, do_roll,
                   show_help, dice_faces, parse_calls, results, total_combinations,
                   call, ret>>

\* lines 180 to 185
CheckHelp ==
    /\ pc = "check_help"
    /\ IF show_help
       THEN /\ Exit(0)
            /\ UNCHANGED out
       ELSE IF dice = <<>>
       THEN /\ out' = Append(out, Line("no_dice", <<>>))
            /\ Exit(1)
       ELSE /\ pc' = "parse_dice"
            /\ UNCHANGED <<out, exit_status>>
    /\ UNCHANGED <<args, dice, flags, show_prob, show_occurrences, show_graph, do_roll,
                   show_help, dice_faces, parse_calls, results, total_combinations,
                   call, ret>>

\* the index of the first die token parse_die raises on, or 0
FirstBad(ds) ==
    LET bad == {i \in 1..Len(ds) : ~parse_die(ds[i]).ok}
    IN  IF bad = {} THEN 0 ELSE CHOOSE i \in bad : \A j \in bad : i <= j

\* lines 187 to 192: the list comprehension stops at the first ValueError
ParseDice ==
    /\ pc = "parse_dice"
    /\ LET bad == FirstBad(dice)
       IN  IF bad # 0
           THEN /\ parse_calls' = bad
                /\ out' = Append(out, Line("error", parse_die(dice[bad]).message))
                /\ Exit(1)
                /\ UNCHANGED dice_faces
           ELSE /\ parse_calls' = Len(dice)
                /\ dice_faces' = [i \in 1..Len(dice) |-> parse_die(dice[i]).value]
                /\ pc' = "process_dice"
                /\ UNCHANGED <<out, exit_status>>
    /\ UNCHANGED <<args, dice, flags, show_prob, show_occurrences, show_graph, do_roll,
                   show_help, results, total_combinations, call, ret>>

\* line 195
ProcessDice ==
    /\ pc = "process_dice"
    /\ results' = process_dice(dice_faces).results
    /\ total_combinations' = process_dice(dice_faces).total_combinations
    /\ pc' = "print_table"
    /\ UNCHANGED <<args, dice, flags, show_prob, show_occurrences, show_graph, do_roll,
                   show_help, dice_faces, parse_calls, out, exit_status, call, ret>>

\* lines 198 to 228
PrintTable ==
    /\ pc = "print_table"
    /\ out' = out \o <<Line("blank", <<>>)>>
                  \o print_table(DataFrame(results), show_prob, show_occurrences, show_graph)
    /\ pc' = "print_total"
    /\ UNCHANGED <<args, dice, flags, show_prob, show_occurrences, show_graph, do_roll,
                   show_help, dice_faces, parse_calls, results, total_combinations,
                   exit_status, call, ret>>

\* mutant: the line is printed whatever the flags
PrintTotal_always ==
    /\ pc = "print_total"
    /\ out' = out \o <<Line("total", total_combinations), Line("blank", <<>>)>>
    /\ pc' = "roll"
    /\ UNCHANGED <<args, dice, flags, show_prob, show_occurrences, show_graph, do_roll,
                   show_help, dice_faces, parse_calls, results, total_combinations,
                   exit_status, call, ret>>

\* lines 230 to 232
PrintTotal ==
    /\ pc = "print_total"
    /\ IF ~do_roll \/ show_graph \/ show_occurrences \/ show_prob
       THEN out' = out \o <<Line("total", total_combinations), Line("blank", <<>>)>>
       ELSE UNCHANGED out
    /\ pc' = "roll"
    /\ UNCHANGED <<args, dice, flags, show_prob, show_occurrences, show_graph, do_roll,
                   show_help, dice_faces, parse_calls, results, total_combinations,
                   exit_status, call, ret>>

\* lines 234 to 238, and the return: rand.choice takes any one of the rolls
Roll ==
    /\ pc = "roll"
    /\ IF do_roll
       THEN LET rolls == generate_all_rolls(dice_faces)
            IN  \E k \in 1..Len(rolls) :
                    out' = out \o <<Line("roll", sum(rolls[k])), Line("blank", <<>>)>>
       ELSE UNCHANGED out
    /\ Exit(0)
    /\ UNCHANGED <<args, dice, flags, show_prob, show_occurrences, show_graph, do_roll,
                   show_help, dice_faces, parse_calls, results, total_combinations,
                   call, ret>>

Next ==
    \/ ParseArgs
    \/ ProcessFlags
    \/ CheckHelp
    \/ ParseDice
    \/ ProcessDice
    \/ PrintTable
    \/ PrintTotal
    \/ Roll

Spec == Init /\ [][Next]_vars

-----------------------------------------------------------------------------
(* The functions called on their own, as by a program that imports the      *)
(* module: the call's arguments are drawn, and one step returns.             *)

Library(fn, inputs) ==
    /\ Fresh(<<>>, "imported")
    /\ \E a \in inputs : call = [fn |-> fn, arg |-> a]
    /\ ret = NotReturned

Return(fn, v) ==
    /\ call.fn = fn
    /\ ~ret.done
    /\ ret' = Returned(v)
    /\ UNCHANGED mainvars
    /\ UNCHANGED call

CallParseDie == Return("parse_die", parse_die(call.arg))

SpecParseDie == Library("parse_die", Tokens) /\ [][CallParseDie]_vars

CallProcessFlags == Return("process_flags", process_flags(call.arg))

SpecProcessFlags == Library("process_flags", FlagLists) /\ [][CallProcessFlags]_vars

CallProcessDice == Return("process_dice", process_dice(call.arg))

SpecProcessDice == Library("process_dice", FaceLists) /\ [][CallProcessDice]_vars

CallGetGraphLine == Return("get_graph_line", get_graph_line(call.arg[1], call.arg[2]))

SpecGetGraphLine == Library("get_graph_line", CountPairs) /\ [][CallGetGraphLine]_vars

\* a row of print_graph for the table of one die: arg is (row's sum, largest sum)
CallGraphRow ==
    Return("graph_row", graph_row(call.arg[1], 1, DigitLen(call.arg[2]), 1))

\* the program, or a row of print_graph on its own
SpecRender ==
    /\ Init \/ Library("graph_row", SumPairs)
    /\ [][Next \/ CallGraphRow]_vars

-----------------------------------------------------------------------------
(* The claims' vocabulary, stated without the program's functions. *)

\* F_1 * ... * F_n
RECURSIVE Prod(_)
Prod(F) == IF F = <<>> THEN 1 ELSE Head(F) * Prod(Tail(F))

\* F_1 + ... + F_n
RECURSIVE Total(_)
Total(F) == IF F = <<>> THEN 0 ELSE Head(F) + Total(Tail(F))

\* the outcome tuples (v_1..v_n) with 1 <= v_i <= F_i
RECURSIVE Outcomes(_)
Outcomes(F) ==
    IF F = <<>> THEN {<<>>}
    ELSE {<<v>> \o t : v \in 1..Head(F), t \in Outcomes(Tail(F))}

\* for each S in 0 .. F_1 + ... + F_n + 1, how many outcome tuples sum to S
Ways(F) ==
    LET totals == [v \in Outcomes(F) |-> Total(v)]
    IN  [S \in 0..(Total(F) + 1) |->
            Cardinality({v \in DOMAIN totals : totals[v] = S})]

\* a token 'd' or 'D' followed by one or more decimal digits
DieShaped(t) ==
    /\ Len(t) >= 2
    /\ t[1] \in {"d", "D"}
    /\ \A i \in 2..Len(t) : t[i] \in DOMAIN DigitValue

\* the value of a die-shaped token's digits
DieValue(t) ==
    Total([i \in 1..(Len(t) - 1) |-> DigitValue[t[i + 1]] * Pow10(Len(t) - 1 - i)])

WellFormedDie(t) == DieShaped(t) /\ DieValue(t) >= 1

\* the number of decimal digits of n, 1 <= n < 10^9
Digits(n) == CHOOSE k \in 1..9 : Pow10(k - 1) <= n /\ n < Pow10(k)

\* the ten recognised flag strings
TenFlags ==
    {<<"-", "p">>, <<"-", "-", "p", "r", "o", "b">>,
     <<"-", "o">>, <<"-", "-", "o", "c", "c">>,
     <<"-", "g">>, <<"-", "-", "g", "r", "a", "p", "h">>,
     <<"-", "r">>, <<"-", "-", "r", "o", "l", "l">>,
     <<"-", "h">>, <<"-", "-", "h", "e", "l", "p">>}

IsFlagToken(t) == Len(t) >= 1 /\ t[1] = "-"

Has(l, short, long) == \E i \in 1..Len(l) : l[i] \in {short, long}

WantsProb(l) == Has(l, <<"-", "p">>, <<"-", "-", "p", "r", "o", "b">>)
WantsOcc(l) == Has(l, <<"-", "o">>, <<"-", "-", "o", "c", "c">>)
WantsGraph(l) == Has(l, <<"-", "g">>, <<"-", "-", "g", "r", "a", "p", "h">>)
WantsRoll(l) == Has(l, <<"-", "r">>, <<"-", "-", "r", "o", "l", "l">>)
WantsHelp(l) == Has(l, <<"-", "h">>, <<"-", "-", "h", "e", "l", "p">>)

UnknownFlag(l) == \E i \in 1..Len(l) : IsFlagToken(l[i]) /\ l[i] \notin TenFlags
NoDieToken(l) == \A i \in 1..Len(l) : IsFlagToken(l[i])
MalformedDie(l) == \E i \in 1..Len(l) : ~IsFlagToken(l[i]) /\ ~WellFormedDie(l[i])

\* a help run: a help flag, or none of the four other flags
HelpRun(l) ==
    WantsHelp(l) \/ ~(WantsProb(l) \/ WantsOcc(l) \/ WantsGraph(l) \/ WantsRoll(l))

\* the face counts an argument list names, in order
FacesOf(l) ==
    LET ds == SelectSeq(l, LAMBDA t : ~IsFlagToken(t))
    IN  [i \in 1..Len(ds) |-> DieValue(ds[i])]

\* the places of the output holding a line of one of the kinds
Places(o, kinds) == {i \in 1..Len(o) : o[i].kind \in kinds}

NoResultLines(o) == Places(o, {"table", "graph", "total", "roll"}) = {}

\* the run passed validation, was no help run, and has returned
Finished == pc = "exited" /\ exit_status = 0 /\ ~HelpRun(args)

\* the table has been printed (or left out): a run past line 228
Rendered == pc \in {"print_total", "roll"} \/ (pc = "exited" /\ results # <<>>)

ExpectedColumns(p, o, g) ==
    {"Sum"} \cup (IF p THEN {"Probability"} ELSE {})
            \cup (IF o THEN {"Occurrences"} ELSE {})
            \cup (IF g THEN {"Graph"} ELSE {})

\* the largest sum of the table
LargestSum == results[Len(results)][1]

-----------------------------------------------------------------------------
(* The claims. *)

\* C1: for every non-empty list of face counts, the counts of process_dice's
\* table sum to the product of the face counts, and total_combinations is that
\* product.
C1_CountsSumToProduct ==
    (call.fn = "process_dice" /\ ret.done) =>
        LET table == ret.value.results
        IN  /\ Total([i \in 1..Len(table) |-> table[i][3]]) = Prod(call.arg)
            /\ ret.value.total_combinations = Prod(call.arg)

C1_Witness ==
    /\ ret.done
    /\ call.arg = <<2, 3, 4>>
    /\ ret.value.total_combinations = 24
    /\ Len(ret.value.results) = 7

\* C2: process_dice's table is strictly ascending by sum, has an entry for S
\* exactly when some outcome tuple sums to S, and the entry's count is the number
\* of these tuples: no entry has count 0 and no achievable sum is missing.
C2_TableIsTheSumDistribution ==
    (call.fn = "process_dice" /\ ret.done) =>
        LET table == ret.value.results
            ways == Ways(call.arg)
        IN  /\ \A i \in 1..(Len(table) - 1) : table[i][1] < table[i + 1][1]
            /\ \A S \in DOMAIN ways :
                  (\E i \in 1..Len(table) : table[i][1] = S) <=> ways[S] > 0
            /\ \A i \in 1..Len(table) :
                  /\ table[i][1] \in DOMAIN ways
                  /\ table[i][3] = ways[table[i][1]]
                  /\ table[i][3] > 0

\* d6 d6: 11 entries, the sums 2..12, 7 with the largest count, 6
C2_Witness ==
    /\ ret.done
    /\ call.arg = <<6, 6>>
    /\ Len(ret.value.results) = 11
    /\ ret.value.results[1][1] = 2 /\ ret.value.results[1][3] = 1
    /\ ret.value.results[6][1] = 7 /\ ret.value.results[6][3] = 6
    /\ ret.value.results[11][1] = 12 /\ ret.value.results[11][3] = 1

\* C3: parse_die returns N for every token 'd' or 'D' followed by one or more
\* decimal digits of value N >= 1; for every other token it fails with the error
\* whose message holds the token exactly as given; it never returns a value
\* below 1.
C3_ParseDie ==
    (call.fn = "parse_die" /\ ret.done) =>
        IF WellFormedDie(call.arg)
        THEN ret.value.ok /\ ret.value.value = DieValue(call.arg) /\ ret.value.value >= 1
        ELSE /\ ~ret.value.ok
             /\ ret.value.message = <<"Invalid die format: ">> \o call.arg

C3_Witness ==
    /\ ret.done
    /\ call.arg = <<"D", "0">>
    /\ ~ret.value.ok
    /\ ret.value.message = <<"Invalid die format: ", "D", "0">>

\* C4 as stated: for 1 <= c <= m the graph token is a run of the glyph of length
\* c when m <= 50, and of length round(c/m * 50) + 1 when m > 50 (round to
\* nearest, ties to even).
C4_AsStated ==
    (call.fn = "get_graph_line" /\ ret.done) =>
        LET c == call.arg[1]
            m == call.arg[2]
            q == (GraphScale * c) \div m
            r == (GraphScale * c) % m
            rounded == IF 2 * r > m \/ (2 * r = m /\ q % 2 = 1) THEN q + 1 ELSE q
        IN  /\ \A i \in 1..Len(ret.value) : ret.value[i] = "="
            /\ Len(ret.value) = IF m <= 50 THEN c ELSE rounded + 1

\* C4 as amended: the length is c when m <= 50, and when m > 50 the float
\* (c/m) * 50 + 1 truncated: floor(50c/m) + 1, but 29 where 50c/m is exactly 29.
C4_Truncated ==
    (call.fn = "get_graph_line" /\ ret.done) =>
        LET c == call.arg[1]
            m == call.arg[2]
        IN  /\ \A i \in 1..Len(ret.value) : ret.value[i] = "="
            /\ Len(ret.value) = IF m <= 50 THEN c
                                ELSE IF 50 * c = 29 * m THEN 29
                                ELSE ((50 * c) \div m) + 1

C4_Witness ==
    /\ ret.done
    /\ call.arg = <<58, 100>>
    /\ Len(ret.value) = 29

\* C5 as stated: every invocation whose arguments contain an unknown flag, or no
\* die token, or a malformed die token ends with exit status 1 and prints no
\* table, no total-combinations line and no roll line.
C5_AsStated ==
    (UnknownFlag(args) \/ NoDieToken(args) \/ MalformedDie(args)) =>
        /\ NoResultLines(out)
        /\ pc = "exited" => exit_status = 1

\* C5 as amended: the same of every invocation whose arguments are empty, or
\* contain an unknown flag, or, when the run is no help run, contain no die token
\* or a malformed die token.
C5_ExceptHelpRuns ==
    (\/ args = <<>>
     \/ UnknownFlag(args)
     \/ (~HelpRun(args) /\ (NoDieToken(args) \/ MalformedDie(args)))) =>
        /\ NoResultLines(out)
        /\ pc \notin {"process_dice", "print_table", "print_total", "roll"}
        /\ pc = "exited" => exit_status = 1

C5_Witness ==
    /\ pc = "exited"
    /\ exit_status = 1
    /\ args = <<<<"d", "2">>, <<"d", "0">>, <<"-", "p">>, <<"-", "r">>>>
    /\ out = <<Line("error", <<"Invalid die format: ", "d", "0">>)>>

\* C6: for every list of the ten recognised flags, process_flags returns
\* show_help = TRUE exactly when a help flag is in the list or none of the four
\* others is; with show_help the four other booleans are FALSE, and without it
\* each is TRUE exactly when its short or long form is in the list.
C6_ProcessFlags ==
    (call.fn = "process_flags" /\ ret.done /\ Range(call.arg) \subseteq TenFlags) =>
        LET l == call.arg
            v == ret.value
        IN  /\ ~v.exit
            /\ v.show_help <=> HelpRun(l)
            /\ v.show_help =>
                  ~v.show_prob /\ ~v.show_occurrences /\ ~v.show_graph /\ ~v.do_roll
            /\ ~v.show_help =>
                  /\ v.show_prob <=> WantsProb(l)
                  /\ v.show_occurrences <=> WantsOcc(l)
                  /\ v.show_graph <=> WantsGraph(l)
                  /\ v.do_roll <=> WantsRoll(l)

C6_Witness ==
    /\ ret.done
    /\ call.arg = <<F_p, F_o, F_g, F_r, F_h>>
    /\ ret.value.show_help
    /\ ~ret.value.show_prob /\ ~ret.value.do_roll

\* C7: with a non-empty argument list whose flags are all recognised and that
\* holds a help flag or none of the four other flags, the program prints the
\* usage text and ends with status 0, before any die token is parsed and without
\* a table, a total-combinations line or a roll line; with an empty argument list
\* it prints the usage line and exits with status 1.
C7_HelpRun ==
    /\ (args # <<>> /\ ~UnknownFlag(args) /\ HelpRun(args)) =>
          /\ parse_calls = 0
          /\ NoResultLines(out)
          /\ pc \in {"start", "process_flags", "check_help", "exited"}
          /\ pc \in {"check_help", "exited"} => out = HelpText
          /\ pc = "exited" => exit_status = 0
    /\ (args = <<>> /\ pc = "exited") =>
          /\ exit_status = 1
          /\ out = <<Line("usage_short", <<>>)>>

C7_Witness ==
    /\ pc = "exited"
    /\ exit_status = 0
    /\ args = <<<<"-", "p">>, <<"-", "h">>>>
    /\ out = HelpText

\* C8: in a run that passes validation and is no help run, the total-combinations
\* line is printed exactly once when one of the three table flags is set or roll
\* is not, and not at all when roll is the only flag; its T is the product of the
\* face counts, and it comes after the table and before the roll line.
C8_TotalLine ==
    Finished =>
        LET totals == Places(out, {"total"})
        IN  /\ Cardinality(totals) =
                  IF WantsProb(args) \/ WantsOcc(args) \/ WantsGraph(args) \/ ~WantsRoll(args)
                  THEN 1 ELSE 0
            /\ \A i \in totals :
                  /\ out[i].data = Prod(FacesOf(args))
                  /\ \A j \in Places(out, {"table", "graph"}) : j < i
                  /\ \A j \in Places(out, {"roll"}) : i < j

C8_Witness ==
    /\ Finished
    /\ args = <<<<"d", "2">>, <<"d", "3">>, <<"-", "g">>, <<"-", "r">>>>
    /\ \E i \in 1..Len(out) : out[i].kind = "total" /\ out[i].data = 6
    /\ Places(out, {"roll"}) # {}

\* C9: in a run that passes validation with the roll flag and no help flag,
\* exactly one roll line is printed, its R is the sum of one outcome tuple, so
\* n <= R <= F_1 + ... + F_n, and every sum of the table is a possible R; with
\* roll the only flag no table and no total-combinations line are printed, and
\* without the roll flag no roll line is printed.
C9_Roll ==
    /\ (Finished /\ WantsRoll(args)) =>
          /\ Cardinality(Places(out, {"roll"})) = 1
          /\ \A i \in Places(out, {"roll"}) :
                /\ out[i].data \in {Total(v) : v \in Outcomes(FacesOf(args))}
                /\ Len(FacesOf(args)) <= out[i].data
                /\ out[i].data <= Total(FacesOf(args))
    /\ (Finished /\ ~(WantsProb(args) \/ WantsOcc(args) \/ WantsGraph(args))) =>
          Places(out, {"table", "graph", "total"}) = {}
    /\ (Finished /\ ~WantsRoll(args)) => Places(out, {"roll"}) = {}
    /\ (pc = "roll" /\ WantsRoll(args)) =>
          \A i \in 1..Len(results) :
              ENABLED (Roll /\ out' = out \o <<Line("roll", results[i][1]),
                                               Line("blank", <<>>)>>)

\* -r alone: one roll line and nothing else but the blank lines around it
C9_Witness ==
    /\ Finished
    /\ args = <<<<"d", "2">>, <<"d", "3">>, <<"-", "r">>>>
    /\ out = <<Line("blank", <<>>), Line("roll", 5), Line("blank", <<>>)>>

\* the Sum column, and each of the three other columns exactly when its flag is
\* set, in a table; with the graph flag alone the graph, where each row's sum is
\* right-aligned to the given width and the row's count follows the bar
ColumnsAsFlagged(width) ==
    (Rendered /\ (show_prob \/ show_occurrences \/ show_graph)) =>
        /\ Cardinality(Places(out, {"table", "graph"})) = 1
        /\ \A k \in Places(out, {"table", "graph"}) :
              LET shown == out[k].data
              IN  /\ Range(shown.columns)
                        = ExpectedColumns(show_prob, show_occurrences, show_graph)
                  /\ Len(shown.rows) = Len(results)
                  /\ IF show_graph /\ ~show_prob /\ ~show_occurrences
                     THEN /\ out[k].kind = "graph"
                          /\ \A i \in 1..Len(results) :
                                /\ shown.rows[i].Sum = results[i][1]
                                /\ Len(shown.rows[i].spaces) + Digits(results[i][1]) = width
                                /\ shown.rows[i].bar = results[i][4]
                                /\ shown.rows[i].Occurrences = results[i][3]
                     ELSE /\ out[k].kind = "table"
                          /\ \A i \in 1..Len(results) :
                                /\ Len(shown.rows[i]) = Len(shown.columns)
                                /\ shown.rows[i][1] = results[i][1]

\* C10 as stated: the columns are the flagged ones, and with graph alone the sums
\* are right-aligned to the width of the largest sum.
C10_AsStated ==
    /\ Rendered => ColumnsAsFlagged(Digits(LargestSum))
    /\ (call.fn = "graph_row" /\ ret.done) =>
          Len(ret.value.spaces) + Digits(call.arg[1]) = Digits(call.arg[2])

\* C10 as amended: with graph alone the sums are right-aligned to the width of
\* the largest sum or to 4 characters, whichever is more.
C10_WidthAtLeastFour ==
    /\ Rendered => ColumnsAsFlagged(Max(4, Digits(LargestSum)))
    /\ (call.fn = "graph_row" /\ ret.done) =>
          /\ Len(ret.value.spaces) + Digits(call.arg[1]) = Max(4, Digits(call.arg[2]))
          /\ ret.value.Sum = call.arg[1]

C10_Witness ==
    /\ ret.done
    /\ call = [fn |-> "graph_row", arg |-> <<9, 10000>>]
    /\ Len(ret.value.spaces) = 4

=============================================================================
